---- MODULE Spec2Model ----
(***************************************************************************)
(* Model of the taskr task-tracking backend (Django REST framework).       *)
(*                                                                         *)
(*   tasks/models.py       Task, TaskCategory, TaskEventLog                *)
(*   tasks/serializers.py  TaskSerializer, TaskStatusSerializer            *)
(*   tasks/views.py        TaskListCreate, TaskDetail, TaskAssign,         *)
(*                         TaskChangeStatus, TaskEventLogList              *)
(*   users/views.py        UserReports                                     *)
(*                                                                         *)
(* Spec      : one request at a time, every view method is one action.     *)
(* SpecSteps : the view methods split at their database statements         *)
(*             (autocommit), with requests interleaving and failing        *)
(*             between statements.                                         *)
(***************************************************************************)
EXTENDS Integers, Sequences, FiniteSets, TLC

VARIABLES
    users,       \* pks of the rows of the user table
    categories,  \* pks of the rows of TaskCategory
    tasks,       \* the Task table: pk -> row
    log,         \* the TaskEventLog table in created_on order
    nextId,      \* next autoincrement pk of Task
    clock,       \* logical time, advanced by every Task.save()
    calls,       \* history: pk -> number of calls that changed the task
    last,        \* history: the last request and its response
    reqs         \* SpecSteps: the requests in flight, slot -> frame

vars == <<users, categories, tasks, log, nextId, clock, calls, last, reqs>>

----------------------------------------------------------------------------
(* Bounds of the model. *)

MaxTasks == 2     \* Task pks ever allotted
MaxClock == 3     \* Task.save() calls, each one tick of the clock

----------------------------------------------------------------------------
(* tasks/enums.py and the field limits of tasks/models.py *)

STATUS_TODO        == 1
STATUS_IN_PROGRESS == 2
STATUS_DONE        == 3
STATUS_CHOICES     == {STATUS_TODO, STATUS_IN_PROGRESS, STATUS_DONE}

PRIORITY_LOW     == 1
PRIORITY_MEDIUM  == 2
PRIORITY_HIGH    == 3
PRIORITY_CHOICES == {PRIORITY_LOW, PRIORITY_MEDIUM, PRIORITY_HIGH}

EVENT_CREATED        == 1
EVENT_EDITED         == 2
EVENT_ASSIGNED       == 3
EVENT_STATUS_CHANGED == 4

NameMaxLen        == 300
DescriptionMaxLen == 2000

\* Python's None: the null assignee, the anonymous request.user,
\* an absent key of request.data as seen through .get().
None == 0

\* HTTP status codes of rest_framework.status
HTTP_200_OK             == 200
HTTP_201_CREATED        == 201
HTTP_204_NO_CONTENT     == 204
HTTP_400_BAD_REQUEST    == 400
HTTP_401_UNAUTHORIZED   == 401
HTTP_404_NOT_FOUND      == 404

----------------------------------------------------------------------------
(* request.data: a mapping whose keys may be missing.  Text fields are     *)
(* carried by their length, keys and choices by their integer, the 'user'  *)
(* of the assign request by its characters.                                *)

Absent == -1      \* marks a key left out when an input mapping is built

MkData(f) == [k \in {x \in DOMAIN f : f[x] # Absent} |-> f[k]]

NoData == [k \in {} |-> None]

Has(data, key) == key \in DOMAIN data

Digits == <<"0", "1", "2", "3", "4", "5", "6", "7", "8", "9">>

IsDigit(c) == \E i \in 1..10 : Digits[i] = c

DigitVal(c) == (CHOOSE i \in 1..10 : Digits[i] = c) - 1

\* int(s) raises ValueError for '' and for text that is not a number.
IsInt(s) == Len(s) > 0 /\ \A i \in 1..Len(s) : IsDigit(s[i])

RECURSIVE IntOf(_)
IntOf(s) == IF Len(s) = 0 THEN 0
            ELSE 10 * IntOf(SubSeq(s, 1, Len(s) - 1)) + DigitVal(s[Len(s)])

\* str(pk) of a pk below 10
StrOf(n) == <<Digits[n + 1]>>

----------------------------------------------------------------------------
(* permission_classes = (IsAuthenticated,) *)

\* variant: AllowAny
IsAuthenticated_any(actor) == TRUE

IsAuthenticated(actor) == actor # None /\ actor \in users

(* get_object(): the row of the Task table with this pk, or Http404 *)

Exists(pk) == pk \in DOMAIN tasks

(* TaskSerializer: fields and read_only_fields *)

SerializerFields == {"id", "name", "description", "category", "priority",
                     "status", "reporter", "assignee"}

\* variant: only the pk is read-only
ReadOnlyFields_idOnly == {"id"}

ReadOnlyFields == {"id", "status", "reporter", "assignee"}

WritableFields == SerializerFields \ ReadOnlyFields

\* variant: only the name is validated
FieldError_nameOnly(data, key) ==
    key = "name" /\ (data.name = 0 \/ data.name > NameMaxLen)

\* the per-field validators the ModelSerializer derives from models.Task
FieldError(data, key) ==
    CASE key = "name"        -> data.name = 0 \/ data.name > NameMaxLen
      [] key = "description" -> data.description > DescriptionMaxLen
      [] key = "category"    -> data.category \notin categories
      [] key = "priority"    -> data.priority \notin PRIORITY_CHOICES
      [] OTHER               -> FALSE

\* name and category have no default and are not blank: required
RequiredFields == {"name", "category"}

\* TaskSerializer(data=..., partial=...).is_valid()
TaskSerializer_is_valid(data, partial) ==
    /\ partial \/ RequiredFields \subseteq DOMAIN data
    /\ \A key \in WritableFields \cap DOMAIN data : ~FieldError(data, key)

\* variant: every field of the payload is taken, read-only or not
TaskSerializer_validated_data_all(data) ==
    [key \in (SerializerFields \ {"id"}) \cap DOMAIN data |-> data[key]]

\* TaskSerializer.validated_data: read-only fields are dropped
TaskSerializer_validated_data(data) ==
    [key \in WritableFields \cap DOMAIN data |-> data[key]]

\* ModelSerializer.update(): setattr for each validated field
SetAttrs(task, vd) ==
    [key \in DOMAIN task |-> IF key \in DOMAIN vd THEN vd[key] ELSE task[key]]

\* the defaults of models.Task
TaskDefaults ==
    [name        |-> 0,
     description |-> 0,
     category    |-> None,
     priority    |-> PRIORITY_MEDIUM,
     status      |-> STATUS_TODO,
     reporter    |-> None,
     assignee    |-> None,
     created_on  |-> None,
     modified_on |-> None]

\* Task(**validated_data)
NewTask(vd) == SetAttrs(TaskDefaults, vd)

(* TaskStatusSerializer: fields = ('status',) *)

\* variant: the status is not checked against the choices
TaskStatusSerializer_is_valid_any(data) == TRUE

\* TaskStatusSerializer(task, data=..., partial=True).is_valid()
TaskStatusSerializer_is_valid(data) ==
    Has(data, "status") => data.status \in STATUS_CHOICES

TaskStatusSerializer_validated_data(data) ==
    [key \in {"status"} \cap DOMAIN data |-> data[key]]

\* validated_data.get('status')
ValidatedStatus(vd) == IF Has(vd, "status") THEN vd.status ELSE None

\* variant: a status may only move forward
SameStatus_forward(vd, task) == ValidatedStatus(vd) <= task.status

\* TaskChangeStatus.post: validated_data.get('status') == task.status
SameStatus(vd, task) == ValidatedStatus(vd) = task.status

\* variant: `is` for `==`, true of None alone
SameAssignee_identity(task, user) == task.assignee = None /\ user = None

\* TaskAssign.post: task.assignee == user
SameAssignee(task, user) == task.assignee = user

(* models: auto_now_add / auto_now, and the delete rules *)

\* variant: modified_on is not auto_now and is not set by the insert
Insert_unstamped(task, now) == [task EXCEPT !.created_on = now]

\* Task.save() of a new row
Insert(task, now) == [task EXCEPT !.created_on = now, !.modified_on = now]

\* variant: created_on is auto_now, as modified_on is
Save_auto_now(task, now) ==
    [task EXCEPT !.created_on = now, !.modified_on = now]

\* Task.save() of a loaded row: every column is written, modified_on is now
Save(task, now) == [task EXCEPT !.modified_on = now]

\* the row of a saved instance: UPDATE, or INSERT when no row has its pk
Upsert(rows, pk, task) ==
    [k \in DOMAIN rows \cup {pk} |-> IF k = pk THEN task ELSE rows[k]]

\* task.delete()
Remove(rows, pk) == [k \in DOMAIN rows \ {pk} |-> rows[k]]

\* variant: event is not passed and takes the default of the model
LogEntry_default(pk, actor, event, description) ==
    [task |-> pk, user |-> actor, event |-> EVENT_CREATED,
     description |-> description]

\* TaskEventLog(task=..., user=..., event=..., description=...)
LogEntry(pk, actor, event, description) ==
    [task |-> pk, user |-> actor, event |-> event, description |-> description]

\* variant: the entry is built and never saved
LogSave_dropped(entries, entry) == entries

\* log.save()
LogSave(entries, entry) == Append(entries, entry)

\* variant: on_delete leaves the entries of the task
CascadeTask_none(entries, pk) == entries

\* TaskEventLog.task: on_delete=CASCADE
CascadeTask(entries, pk) == SelectSeq(entries, LAMBDA e : e.task # pk)

\* variant: ordering = ['-created_on'], the newest entry first
EventsIn_newestFirst(entries, pk) ==
    LET es == SelectSeq(entries, LAMBDA e : e.task = pk)
    IN [i \in 1..Len(es) |-> es[Len(es) + 1 - i]]

\* TaskEventLog.objects.filter(task=task), Meta.ordering = ['created_on']
EventsIn(entries, pk) == SelectSeq(entries, LAMBDA e : e.task = pk)

EventsOf(pk) == EventsIn(log, pk)

(* TaskAssign.post: the target of request.data.get('user') *)

\* variant: no except ValueError, text that is no number finds no user
ResolveUser_strict(data) ==
    IF Has(data, "user") /\ IsInt(data.user) /\ IntOf(data.user) \in users
    THEN [found |-> TRUE, user |-> IntOf(data.user)]
    ELSE [found |-> FALSE, user |-> None]

\* get_object_or_404(User, pk=user) inside try/except ValueError:
\*   a missing key is pk=None, which matches no row: Http404
\*   int() fails: ValueError, caught, user = None
\*   else the row with that pk, or Http404
ResolveUser(data) ==
    IF ~Has(data, "user") THEN [found |-> FALSE, user |-> None]
    ELSE IF ~IsInt(data.user) THEN [found |-> TRUE, user |-> None]
    ELSE IF IntOf(data.user) \in users
         THEN [found |-> TRUE, user |-> IntOf(data.user)]
         ELSE [found |-> FALSE, user |-> None]

----------------------------------------------------------------------------
(* The requests the model sends. *)

UserPks     == {1, 2}
CategoryPks == {1, 2}
Pks         == 1..MaxTasks

\* who sends what: every user sends every payload, and a request without
\* a token carries the payload `anon`
Senders(inputs, anon) == (UserPks \X inputs) \cup {<<None, anon>>}

MissingUser     == <<"2", "9", "7">>     \* a pk of no user
MissingCategory == CHOOSE c \in 3..9 : c \notin CategoryPks   \* no category
InvalidChoice   == 12                    \* not a status, not a priority

\* status, reporter, assignee as a client may put them in a task payload
Privileged ==
    {[status |-> Absent, reporter |-> Absent, assignee |-> Absent]}
    \cup {[status |-> STATUS_DONE, reporter |-> u, assignee |-> u] :
            u \in UserPks}

Fields(n, d, c, p, priv) ==
    MkData([name |-> n, description |-> d, category |-> c, priority |-> p,
            status |-> priv.status, reporter |-> priv.reporter,
            assignee |-> priv.assignee])

NoPriv == [status |-> Absent, reporter |-> Absent, assignee |-> Absent]

\* payloads of POST /tasks/
CreateInputs ==
    {Fields(1, Absent, 1, Absent, priv) : priv \in Privileged}
    \cup {Fields(NameMaxLen, DescriptionMaxLen, 2, PRIORITY_HIGH, NoPriv),
          Fields(Absent, Absent, 1, Absent, NoPriv),
          Fields(0, Absent, 1, Absent, NoPriv),
          Fields(NameMaxLen + 1, Absent, 1, Absent, NoPriv),
          Fields(1, DescriptionMaxLen + 1, 1, Absent, NoPriv),
          Fields(1, Absent, Absent, Absent, NoPriv),
          Fields(1, Absent, MissingCategory, Absent, NoPriv),
          Fields(1, Absent, 1, InvalidChoice, NoPriv)}

\* payloads of PUT /tasks/pk/
UpdateInputs ==
    {Fields(Absent, Absent, Absent, Absent, priv) : priv \in Privileged}
    \cup {Fields(NameMaxLen, Absent, Absent, Absent, NoPriv),
          Fields(NameMaxLen, DescriptionMaxLen, 2, PRIORITY_LOW, NoPriv),
          Fields(0, Absent, Absent, Absent, NoPriv),
          Fields(NameMaxLen + 1, Absent, Absent, Absent, NoPriv),
          Fields(Absent, DescriptionMaxLen + 1, Absent, Absent, NoPriv),
          Fields(Absent, Absent, MissingCategory, Absent, NoPriv),
          Fields(Absent, Absent, Absent, InvalidChoice, NoPriv)}

\* payloads of POST /tasks/pk/assign/
AssignInputs ==
    {NoData}
    \cup {[user |-> s] :
            s \in {<<>>, <<"a">>, MissingUser} \cup {StrOf(u) : u \in UserPks}}

\* payloads of POST /tasks/pk/changestatus/
StatusInputs ==
    {NoData} \cup {[status |-> v] : v \in STATUS_CHOICES \cup {InvalidChoice}}

----------------------------------------------------------------------------
(* Responses and the history variables. *)

Response(op, actor, pk, data, code, body) ==
    [op |-> op, actor |-> actor, pk |-> pk, data |-> data, code |-> code,
     body |-> body]

\* SpecSteps: the requests being served at the same time
Procs == {1, 2}

\* a slot that serves no request
NoRequest == [pc |-> "idle"]

NoResponse == Response("none", None, None, NoData, None, None)

\* the client holds no response: it may send its next request
Idle == last = NoResponse

\* the task changed by a call counts one more
Count(f, pk) == [f EXCEPT ![pk] = @ + 1]

Init ==
    /\ users = UserPks
    /\ categories = CategoryPks
    /\ tasks = [pk \in {} |-> None]
    /\ log = <<>>
    /\ nextId = 1
    /\ clock = 0
    /\ calls = [pk \in Pks |-> 0]
    /\ last = NoResponse
    /\ reqs = [p \in Procs |-> NoRequest]

\* the store: what the database holds
store == <<users, categories, tasks, log, nextId, clock>>

\* a request refused or failed: nothing is written
Refuse(op, actor, pk, data, code) ==
    /\ last' = Response(op, actor, pk, data, code, None)
    /\ UNCHANGED <<store, calls, reqs>>

----------------------------------------------------------------------------
(* tasks/views.py, one request at a time *)

\* TaskListCreate.get
TaskListCreate_get(actor) ==
    /\ Idle
    /\ IF ~IsAuthenticated(actor)
       THEN Refuse("list", actor, None, NoData, HTTP_401_UNAUTHORIZED)
       ELSE /\ last' = Response("list", actor, None, NoData, HTTP_200_OK,
                                tasks)
            /\ UNCHANGED <<store, calls, reqs>>

\* TaskListCreate.post
TaskListCreate_post(actor, data) ==
    /\ Idle
    /\ nextId <= MaxTasks
    /\ clock < MaxClock
    /\ IF ~IsAuthenticated(actor)
       THEN Refuse("create", actor, None, data, HTTP_401_UNAUTHORIZED)
       ELSE IF ~TaskSerializer_is_valid(data, FALSE)
       THEN Refuse("create", actor, None, data, HTTP_400_BAD_REQUEST)
       ELSE LET vd   == TaskSerializer_validated_data(data)
                task == Insert([NewTask(vd) EXCEPT !.reporter = actor],
                               clock + 1)
                pk   == nextId
            IN /\ tasks' = Upsert(tasks, pk, task)
               /\ nextId' = nextId + 1
               /\ clock' = clock + 1
               /\ log' = LogSave(log, LogEntry(pk, actor, EVENT_CREATED,
                                              <<"Task created.">>))
               /\ calls' = Count(calls, pk)
               /\ last' = Response("create", actor, pk, data,
                                   HTTP_201_CREATED, task)
               /\ UNCHANGED <<users, categories, reqs>>

\* variant: the task is saved when it is read
TaskDetail_get_saving(actor, pk) ==
    /\ Idle
    /\ IF ~IsAuthenticated(actor)
       THEN Refuse("get", actor, pk, NoData, HTTP_401_UNAUTHORIZED)
       ELSE IF ~Exists(pk)
       THEN Refuse("get", actor, pk, NoData, HTTP_404_NOT_FOUND)
       ELSE /\ tasks' = [tasks EXCEPT ![pk] = Save(tasks[pk], clock)]
            /\ last' = Response("get", actor, pk, NoData, HTTP_200_OK,
                                tasks[pk])
            /\ UNCHANGED <<users, categories, log, nextId, clock, calls,
                           reqs>>

\* TaskDetail.get
TaskDetail_get(actor, pk) ==
    /\ Idle
    /\ IF ~IsAuthenticated(actor)
       THEN Refuse("get", actor, pk, NoData, HTTP_401_UNAUTHORIZED)
       ELSE IF ~Exists(pk)
       THEN Refuse("get", actor, pk, NoData, HTTP_404_NOT_FOUND)
       ELSE /\ last' = Response("get", actor, pk, NoData, HTTP_200_OK, tasks[pk])
            /\ UNCHANGED <<store, calls, reqs>>

\* TaskDetail.put
TaskDetail_put(actor, pk, data) ==
    /\ Idle
    /\ clock < MaxClock
    /\ IF ~IsAuthenticated(actor)
       THEN Refuse("update", actor, pk, data, HTTP_401_UNAUTHORIZED)
       ELSE IF ~Exists(pk)
       THEN Refuse("update", actor, pk, data, HTTP_404_NOT_FOUND)
       ELSE IF ~TaskSerializer_is_valid(data, TRUE)
       THEN Refuse("update", actor, pk, data, HTTP_400_BAD_REQUEST)
       ELSE LET vd   == TaskSerializer_validated_data(data)
                task == Save(SetAttrs(tasks[pk], vd), clock + 1)
            IN /\ tasks' = [tasks EXCEPT ![pk] = task]
               /\ clock' = clock + 1
               /\ log' = LogSave(log, LogEntry(pk, actor, EVENT_EDITED,
                                              <<"Task edited.">>))
               /\ calls' = Count(calls, pk)
               /\ last' = Response("update", actor, pk, data, HTTP_200_OK,
                                   task)
               /\ UNCHANGED <<users, categories, nextId, reqs>>

\* TaskDetail.delete
TaskDetail_delete(actor, pk) ==
    /\ Idle
    /\ IF ~IsAuthenticated(actor)
       THEN Refuse("delete", actor, pk, NoData, HTTP_401_UNAUTHORIZED)
       ELSE IF ~Exists(pk)
       THEN Refuse("delete", actor, pk, NoData, HTTP_404_NOT_FOUND)
       ELSE /\ tasks' = Remove(tasks, pk)
            /\ log' = CascadeTask(log, pk)
            /\ last' = Response("delete", actor, pk, NoData, HTTP_200_OK, pk)
            /\ UNCHANGED <<users, categories, nextId, clock, calls, reqs>>

\* TaskAssign.post
TaskAssign_post(actor, pk, data) ==
    /\ Idle
    /\ clock < MaxClock
    /\ IF ~IsAuthenticated(actor)
       THEN Refuse("assign", actor, pk, data, HTTP_401_UNAUTHORIZED)
       ELSE IF ~Exists(pk)
       THEN Refuse("assign", actor, pk, data, HTTP_404_NOT_FOUND)
       ELSE LET target == ResolveUser(data)
                user   == target.user
                task   == Save([tasks[pk] EXCEPT !.assignee = user],
                               clock + 1)
            IN IF ~target.found
               THEN Refuse("assign", actor, pk, data, HTTP_404_NOT_FOUND)
               ELSE IF SameAssignee(tasks[pk], user)
               THEN Refuse("assign", actor, pk, data, HTTP_204_NO_CONTENT)
               ELSE /\ tasks' = [tasks EXCEPT ![pk] = task]
                    /\ clock' = clock + 1
                    /\ log' = LogSave(log,
                                LogEntry(pk, actor, EVENT_ASSIGNED,
                                         <<"Task assigned to {}.", user>>))
                    /\ calls' = Count(calls, pk)
                    /\ last' = Response("assign", actor, pk, data,
                                        HTTP_200_OK, task)
                    /\ UNCHANGED <<users, categories, nextId, reqs>>

\* TaskChangeStatus.post
TaskChangeStatus_post(actor, pk, data) ==
    /\ Idle
    /\ clock < MaxClock
    /\ IF ~IsAuthenticated(actor)
       THEN Refuse("changeStatus", actor, pk, data, HTTP_401_UNAUTHORIZED)
       ELSE IF ~Exists(pk)
       THEN Refuse("changeStatus", actor, pk, data, HTTP_404_NOT_FOUND)
       ELSE IF ~TaskStatusSerializer_is_valid(data)
       THEN Refuse("changeStatus", actor, pk, data, HTTP_400_BAD_REQUEST)
       ELSE LET vd   == TaskStatusSerializer_validated_data(data)
                task == Save(SetAttrs(tasks[pk], vd), clock + 1)
            IN IF SameStatus(vd, tasks[pk])
               THEN Refuse("changeStatus", actor, pk, data,
                           HTTP_204_NO_CONTENT)
               ELSE /\ tasks' = [tasks EXCEPT ![pk] = task]
                    /\ clock' = clock + 1
                    /\ log' = LogSave(log,
                                LogEntry(pk, actor, EVENT_STATUS_CHANGED,
                                         <<"Task status changed to \"{}\".",
                                           task.status>>))
                    /\ calls' = IF task.status # tasks[pk].status
                                THEN Count(calls, pk) ELSE calls
                    /\ last' = Response("changeStatus", actor, pk, data,
                                        HTTP_200_OK, task)
                    /\ UNCHANGED <<users, categories, nextId, reqs>>

\* variant: the entries are filtered by pk, the task is not looked up
TaskEventLogList_get_unchecked(actor, pk) ==
    /\ Idle
    /\ IF ~IsAuthenticated(actor)
       THEN Refuse("listEvents", actor, pk, NoData, HTTP_401_UNAUTHORIZED)
       ELSE /\ last' = Response("listEvents", actor, pk, NoData, HTTP_200_OK,
                                EventsOf(pk))
            /\ UNCHANGED <<store, calls, reqs>>

\* TaskEventLogList.get
TaskEventLogList_get(actor, pk) ==
    /\ Idle
    /\ IF ~IsAuthenticated(actor)
       THEN Refuse("listEvents", actor, pk, NoData, HTTP_401_UNAUTHORIZED)
       ELSE IF ~Exists(pk)
       THEN Refuse("listEvents", actor, pk, NoData, HTTP_404_NOT_FOUND)
       ELSE /\ last' = Response("listEvents", actor, pk, NoData, HTTP_200_OK,
                                EventsOf(pk))
            /\ UNCHANGED <<store, calls, reqs>>

(* users/views.py *)

\* variant: the tasks the user reported are taken for the assigned ones
assigned_tasks_reported(user) ==
    {pk \in DOMAIN tasks : tasks[pk].reporter = user}

\* UserReports.get: tasks.filter(assignee=user)
assigned_tasks(user) == {pk \in DOMAIN tasks : tasks[pk].assignee = user}

\* UserReports.get: the four counts of the response
UserReports_response(user) ==
    [created     |-> Cardinality({pk \in DOMAIN tasks :
                                    tasks[pk].reporter = user}),
     assigned    |-> Cardinality(assigned_tasks(user)),
     completed   |-> Cardinality({pk \in assigned_tasks(user) :
                                    tasks[pk].status = STATUS_DONE}),
     incompleted |-> Cardinality({pk \in assigned_tasks(user) :
                                    tasks[pk].status \in
                                        {STATUS_TODO, STATUS_IN_PROGRESS}})]

\* UserReports.get
UserReports_get(actor) ==
    /\ Idle
    /\ IF ~IsAuthenticated(actor)
       THEN Refuse("report", actor, None, NoData, HTTP_401_UNAUTHORIZED)
       ELSE /\ last' = Response("report", actor, None, NoData, HTTP_200_OK,
                                UserReports_response(actor))
            /\ UNCHANGED <<store, calls, reqs>>

\* the client takes the response; its next request may follow
Receive ==
    /\ ~Idle
    /\ last' = NoResponse
    /\ UNCHANGED <<store, calls, reqs>>

Create       == \E r \in Senders(CreateInputs, Fields(1, Absent, 1, Absent,
                                                       NoPriv)) :
                    TaskListCreate_post(r[1], r[2])
List         == \E r \in Senders({NoData}, NoData) : TaskListCreate_get(r[1])
Get          == \E r \in Senders({NoData}, NoData), pk \in Pks :
                    TaskDetail_get(r[1], pk)
Update       == \E r \in Senders(UpdateInputs, [name |-> NameMaxLen]),
                   pk \in Pks :
                    TaskDetail_put(r[1], pk, r[2])
Delete       == \E r \in Senders({NoData}, NoData), pk \in Pks :
                    TaskDetail_delete(r[1], pk)
Assign       == \E r \in Senders(AssignInputs, [user |-> <<>>]),
                   pk \in Pks :
                    TaskAssign_post(r[1], pk, r[2])
ChangeStatus == \E r \in Senders(StatusInputs,
                                  [status |-> STATUS_IN_PROGRESS]),
                   pk \in Pks :
                    TaskChangeStatus_post(r[1], pk, r[2])
ListEvents   == \E r \in Senders({NoData}, NoData), pk \in Pks :
                    TaskEventLogList_get(r[1], pk)
Report       == \E r \in Senders({NoData}, NoData) : UserReports_get(r[1])

Next ==
    \/ Receive
    \/ Create
    \/ List
    \/ Get
    \/ Update
    \/ Delete
    \/ Assign
    \/ ChangeStatus
    \/ ListEvents
    \/ Report

Spec == Init /\ [][Next]_vars

----------------------------------------------------------------------------
(* models.py: what the on_delete rules do when a row of the user table is *)
(* deleted.  No view deletes a user; the rules act on user.delete() from  *)
(* any caller of the ORM.                                                 *)

\* Task.reporter, Task.assignee: on_delete=PROTECT
Protected(user) ==
    \E pk \in DOMAIN tasks :
        tasks[pk].reporter = user \/ tasks[pk].assignee = user

\* TaskEventLog.user: on_delete=CASCADE
CascadeUser(entries, user) == SelectSeq(entries, LAMBDA e : e.user # user)

\* user.delete(): refused while a task names the user, else the user goes
\* and the entries of the user go with it
User_delete(user) ==
    /\ Idle
    /\ user \in users
    /\ ~Protected(user)
    /\ users' = users \ {user}
    /\ log' = CascadeUser(log, user)
    /\ UNCHANGED <<categories, tasks, nextId, clock, calls, last, reqs>>

DeleteUser == \E user \in UserPks : User_delete(user)

NextUsers ==
    \/ Next
    \/ DeleteUser

SpecUsers == Init /\ [][NextUsers]_vars

\* variant: nothing protects a category
CategoryProtected_never(category) == FALSE

\* Task.category: on_delete=PROTECT
CategoryProtected(category) ==
    \E pk \in DOMAIN tasks : tasks[pk].category = category

\* category.delete(): refused while a task refers to the category
Category_delete(category) ==
    /\ Idle
    /\ category \in categories
    /\ ~CategoryProtected(category)
    /\ categories' = categories \ {category}
    /\ UNCHANGED <<users, tasks, log, nextId, clock, calls, last, reqs>>

DeleteCategory == \E category \in CategoryPks : Category_delete(category)

NextCategories ==
    \/ Next
    \/ DeleteCategory

SpecCategories == Init /\ [][NextCategories]_vars

----------------------------------------------------------------------------
(* tasks/views.py, statement by statement.  No view opens a transaction: *)
(* get_object(), task.save() / task.delete() and log.save() are separate *)
(* autocommit statements, other requests run between them and a request  *)
(* may fail between them.                                                *)

Frame(pc, op, actor, pk, data, task) ==
    [pc |-> pc, op |-> op, actor |-> actor, pk |-> pk, data |-> data,
     task |-> task]

HTTP_500_INTERNAL_SERVER_ERROR == 500

Put(p, frame) == reqs' = [reqs EXCEPT ![p] = frame]

\* the request ends with its response and the slot is free
Respond(p, op, actor, pk, data, code, body) ==
    /\ Put(p, NoRequest)
    /\ last' = Response(op, actor, pk, data, code, body)

\* the request ends without a write
End(p, op, actor, pk, data, code) ==
    /\ Respond(p, op, actor, pk, data, code, None)
    /\ UNCHANGED <<store, calls>>

\* the payloads of the requests that run side by side
StepCreateInputs == {Fields(1, Absent, 1, Absent, NoPriv)}

StepUpdateInputs == {Fields(NameMaxLen, Absent, Absent, Absent, NoPriv)}

StepAssignInputs == {[user |-> s] : s \in {<<>>} \cup {StrOf(u) : u \in UserPks}}

StepStatusInputs == {NoData} \cup {[status |-> v] : v \in STATUS_CHOICES}

LoadingOps == {"update", "assign", "changeStatus", "delete"}

StepInputs(op) ==
    CASE op = "update"       -> StepUpdateInputs
      [] op = "assign"       -> StepAssignInputs
      [] op = "changeStatus" -> StepStatusInputs
      [] OTHER               -> {NoData}

\* the requests that run side by side come from one user
StepUser == CHOOSE u \in UserPks : \A v \in UserPks : u <= v

\* the slot that takes the next request: the first one that is free
FreeSlots ==
    LET free == {p \in Procs : reqs[p].pc = "idle"}
    IN {p \in free : \A q \in free : p <= q}

\* TaskListCreate.post up to task.save()
StepCreate(p, actor, data) ==
    /\ Idle
    /\ reqs[p].pc = "idle"
    /\ nextId <= MaxTasks
    /\ clock < MaxClock
    /\ IF ~IsAuthenticated(actor)
       THEN End(p, "create", actor, None, data, HTTP_401_UNAUTHORIZED)
       ELSE IF ~TaskSerializer_is_valid(data, FALSE)
       THEN End(p, "create", actor, None, data, HTTP_400_BAD_REQUEST)
       ELSE LET vd   == TaskSerializer_validated_data(data)
                task == Insert([NewTask(vd) EXCEPT !.reporter = actor],
                               clock + 1)
                pk   == nextId
            IN /\ tasks' = Upsert(tasks, pk, task)
               /\ nextId' = nextId + 1
               /\ clock' = clock + 1
               /\ calls' = Count(calls, pk)
               /\ Put(p, Frame("log", "create", actor, pk, data, task))
               /\ UNCHANGED <<users, categories, log, last>>

\* get_object() of TaskDetail.put / .delete, TaskAssign.post,
\* TaskChangeStatus.post
StepLoad(p, op, actor, pk, data) ==
    /\ Idle
    /\ reqs[p].pc = "idle"
    /\ op = "delete" \/ clock < MaxClock
    /\ IF ~IsAuthenticated(actor)
       THEN End(p, op, actor, pk, data, HTTP_401_UNAUTHORIZED)
       ELSE IF ~Exists(pk)
       THEN End(p, op, actor, pk, data, HTTP_404_NOT_FOUND)
       ELSE /\ Put(p, Frame("loaded", op, actor, pk, data, tasks[pk]))
            /\ UNCHANGED <<store, calls, last>>

\* the loaded instance is saved: every column of the row is written
Write(p, task, changed) ==
    LET f == reqs[p]
    IN /\ tasks' = Upsert(tasks, f.pk, task)
       /\ clock' = clock + 1
       /\ calls' = IF changed THEN Count(calls, f.pk) ELSE calls
       /\ Put(p, Frame("log", f.op, f.actor, f.pk, f.data, task))
       /\ UNCHANGED <<users, categories, log, nextId, last>>

\* TaskDetail.put: is_valid() and task_serializer.save()
StepUpdateSave(p) ==
    LET f == reqs[p]
    IN /\ f.pc = "loaded" /\ f.op = "update"
       /\ Idle
       /\ clock < MaxClock
       /\ IF ~TaskSerializer_is_valid(f.data, TRUE)
          THEN End(p, f.op, f.actor, f.pk, f.data, HTTP_400_BAD_REQUEST)
          ELSE Write(p, Save(SetAttrs(f.task,
                                      TaskSerializer_validated_data(f.data)),
                             clock + 1), TRUE)

\* TaskAssign.post: the target, the comparison and task.save()
StepAssignSave(p) ==
    LET f      == reqs[p]
        target == ResolveUser(f.data)
    IN /\ f.pc = "loaded" /\ f.op = "assign"
       /\ Idle
       /\ clock < MaxClock
       /\ IF ~target.found
          THEN End(p, f.op, f.actor, f.pk, f.data, HTTP_404_NOT_FOUND)
          ELSE IF SameAssignee(f.task, target.user)
          THEN End(p, f.op, f.actor, f.pk, f.data, HTTP_204_NO_CONTENT)
          ELSE Write(p, Save([f.task EXCEPT !.assignee = target.user],
                             clock + 1),
                     ~Exists(f.pk) \/ tasks[f.pk].assignee # target.user)

\* TaskChangeStatus.post: is_valid(), the comparison and
\* task_serializer.save()
StepStatusSave(p) ==
    LET f  == reqs[p]
        vd == TaskStatusSerializer_validated_data(f.data)
    IN /\ f.pc = "loaded" /\ f.op = "changeStatus"
       /\ Idle
       /\ clock < MaxClock
       /\ IF ~TaskStatusSerializer_is_valid(f.data)
          THEN End(p, f.op, f.actor, f.pk, f.data, HTTP_400_BAD_REQUEST)
          ELSE IF SameStatus(vd, f.task)
          THEN End(p, f.op, f.actor, f.pk, f.data, HTTP_204_NO_CONTENT)
          ELSE Write(p, Save(SetAttrs(f.task, vd), clock + 1),
                     ~Exists(f.pk)
                        \/ tasks[f.pk].status # SetAttrs(f.task, vd).status)

\* TaskDetail.delete: task.delete(), the entries of the task with it
StepDelete(p) ==
    LET f == reqs[p]
    IN /\ f.pc = "loaded" /\ f.op = "delete"
       /\ Idle
       /\ tasks' = Remove(tasks, f.pk)
       /\ log' = CascadeTask(log, f.pk)
       /\ Respond(p, f.op, f.actor, f.pk, f.data, HTTP_200_OK, f.pk)
       /\ UNCHANGED <<users, categories, nextId, clock, calls>>

\* the entry each view builds after its save
EntryOf(f) ==
    CASE f.op = "create" ->
            LogEntry(f.pk, f.actor, EVENT_CREATED, <<"Task created.">>)
      [] f.op = "update" ->
            LogEntry(f.pk, f.actor, EVENT_EDITED, <<"Task edited.">>)
      [] f.op = "assign" ->
            LogEntry(f.pk, f.actor, EVENT_ASSIGNED,
                     <<"Task assigned to {}.", f.task.assignee>>)
      [] f.op = "changeStatus" ->
            LogEntry(f.pk, f.actor, EVENT_STATUS_CHANGED,
                     <<"Task status changed to \"{}\".", f.task.status>>)

\* the status of the response after log.save()
Saved(f) == IF f.op = "create" THEN HTTP_201_CREATED ELSE HTTP_200_OK

\* log.save() and the response
StepLog(p) ==
    LET f == reqs[p]
    IN /\ f.pc = "log"
       /\ Idle
       /\ Exists(f.pk)
       /\ log' = LogSave(log, EntryOf(f))
       /\ Respond(p, f.op, f.actor, f.pk, f.data, Saved(f), f.task)
       /\ UNCHANGED <<users, categories, tasks, nextId, clock, calls>>

\* log.save() when the row of the task is gone: the foreign key is refused
\* where the database enforces it, and the entry is stored where it does not
StepLogNoTask(p) ==
    LET f == reqs[p]
    IN /\ f.pc = "log"
       /\ Idle
       /\ ~Exists(f.pk)
       /\ \/ /\ log' = LogSave(log, EntryOf(f))
             /\ Respond(p, f.op, f.actor, f.pk, f.data, Saved(f), f.task)
          \/ /\ log' = log
             /\ Respond(p, f.op, f.actor, f.pk, f.data,
                        HTTP_500_INTERNAL_SERVER_ERROR, None)
       /\ UNCHANGED <<users, categories, tasks, nextId, clock, calls>>

\* the request fails between two statements (the worker dies, the database
\* connection drops): what is written stays, what is not written is lost
Fail(p) ==
    LET f == reqs[p]
    IN /\ f.pc \in {"loaded", "log"}
       /\ Idle
       /\ End(p, f.op, f.actor, f.pk, f.data, HTTP_500_INTERNAL_SERVER_ERROR)

StartCreate == \E p \in FreeSlots, d \in StepCreateInputs :
                   StepCreate(p, StepUser, d)
StartLoad   == \E p \in FreeSlots, op \in LoadingOps, pk \in Pks :
                   \E d \in StepInputs(op) : StepLoad(p, op, StepUser, pk, d)
UpdateSave  == \E p \in Procs : StepUpdateSave(p)
AssignSave  == \E p \in Procs : StepAssignSave(p)
StatusSave  == \E p \in Procs : StepStatusSave(p)
DeleteRow   == \E p \in Procs : StepDelete(p)
LogRow      == \E p \in Procs : StepLog(p)
LogNoTask   == \E p \in Procs : StepLogNoTask(p)
Failure     == \E p \in Procs : Fail(p)

NextSteps ==
    \/ StartCreate
    \/ StartLoad
    \/ UpdateSave
    \/ AssignSave
    \/ StatusSave
    \/ DeleteRow
    \/ LogRow
    \/ LogNoTask
    \/ Failure
    \/ Receive

SpecSteps == Init /\ [][NextSteps]_vars

\* the same statements when no request fails: what concurrent requests do
\* to each other
NextRaces ==
    \/ StartCreate
    \/ StartLoad
    \/ UpdateSave
    \/ AssignSave
    \/ StatusSave
    \/ DeleteRow
    \/ LogRow
    \/ LogNoTask
    \/ Receive

SpecRaces == Init /\ [][NextRaces]_vars

----------------------------------------------------------------------------
(* Properties.  A step of Spec that serves a request leaves the request *)
(* and its response in last', the store before it in the unprimed       *)
(* variables and the store after it in the primed ones.                 *)

\* the request served by this step
Served(op, pk) == last'.op = op /\ last'.pk = pk /\ last'.actor \in users

\* nothing is written
NothingWritten == tasks' = tasks /\ log' = log

\* exactly one entry is appended, of this kind and for this task
AppendsOne(event, pk) ==
    /\ Len(log') = Len(log) + 1
    /\ SubSeq(log', 1, Len(log)) = log
    /\ log'[Len(log')].event = event
    /\ log'[Len(log')].task = pk

\* every task but pk is as it was
OthersKept(pk) ==
    \A k \in DOMAIN tasks \ {pk} : k \in DOMAIN tasks' /\ tasks'[k] = tasks[k]

\* C1: every created task has reporter = the acting user, status = TODO and
\* assignee = null, whatever the payload carries for those three fields.
C1_CreateForcesPrivileged ==
    (last.op = "create" /\ last.code = HTTP_201_CREATED)
    => /\ last.pk \in DOMAIN tasks
       /\ tasks[last.pk].reporter = last.actor
       /\ tasks[last.pk].status = STATUS_TODO
       /\ tasks[last.pk].assignee = None
       /\ last.body = tasks[last.pk]

C1_Witness ==
    /\ last.op = "create" /\ last.code = HTTP_201_CREATED
    /\ Has(last.data, "status") /\ last.data.status = STATUS_DONE
    /\ last.data.reporter \in users \ {last.actor}
    /\ last.data.assignee \in users \ {last.actor}
    /\ tasks[last.pk].reporter = last.actor

\* C2: for every existing task the number of its event-log entries equals
\* the number of calls that changed it (its create, each update, each assign
\* that changed the assignee, each changeStatus that changed the status).
C2_LogCountIsCallCount ==
    \A pk \in DOMAIN tasks : Len(EventsOf(pk)) = calls[pk]

\* the entries of a task that are of one kind
EventsOfKind(pk, event) == SelectSeq(EventsOf(pk), LAMBDA e : e.event = event)

\* what the latest entry of a kind says the field is, or the field's default
LatestLogged(pk, event, default) ==
    LET es == EventsOfKind(pk, event)
    IN IF Len(es) = 0 THEN default ELSE es[Len(es)].description[2]

\* no request is between two of its statements
Quiescent == \A p \in Procs : reqs[p].pc = "idle"

\* C3: create, update, assign and changeStatus apply their write and append
\* their entry as one unit, also when interrupted between the two: once no
\* operation is in flight, every stored task has its CREATED entry, its
\* assignee is the one its latest ASSIGNED entry names and its status the
\* one its latest STATUS_CHANGED entry names.
C3_WriteAndEntryTogether ==
    Quiescent
    => \A pk \in DOMAIN tasks :
        /\ Len(EventsOf(pk)) > 0
        /\ EventsOf(pk)[1].event = EVENT_CREATED
        /\ tasks[pk].assignee = LatestLogged(pk, EVENT_ASSIGNED, None)
        /\ tasks[pk].status = LatestLogged(pk, EVENT_STATUS_CHANGED,
                                          STATUS_TODO)

\* C4: changeStatus from any status to any other status succeeds, sets the
\* status and appends exactly one STATUS_CHANGED entry; changeStatus to the
\* current status answers 204 and writes nothing.
C4_StatusTransitionsUnrestricted ==
    [][\A pk \in DOMAIN tasks, t \in STATUS_CHOICES :
        (Served("changeStatus", pk) /\ last'.data = [status |-> t])
        => IF t # tasks[pk].status
           THEN /\ last'.code = HTTP_200_OK
                /\ pk \in DOMAIN tasks' /\ tasks'[pk].status = t
                /\ OthersKept(pk)
                /\ AppendsOne(EVENT_STATUS_CHANGED, pk)
           ELSE /\ last'.code = HTTP_204_NO_CONTENT
                /\ NothingWritten]_vars

\* a step back: DONE to IN_PROGRESS, after TODO to DONE
C4_Witness ==
    /\ last.op = "changeStatus" /\ last.code = HTTP_200_OK
    /\ last.data = [status |-> STATUS_IN_PROGRESS]
    /\ tasks[last.pk].status = STATUS_IN_PROGRESS
    /\ Len(EventsOf(last.pk)) = 3
    /\ EventsOf(last.pk)[2].event = EVENT_STATUS_CHANGED
    /\ EventsOf(last.pk)[2].description[2] = STATUS_DONE
    /\ EventsOf(last.pk)[3].event = EVENT_STATUS_CHANGED

\* the payload names the assignee the task has now
TargetIsCurrent(data, task) ==
    /\ Has(data, "user")
    /\ IF task.assignee = None THEN data.user = <<>>
       ELSE data.user = StrOf(task.assignee)

\* C5: assign with the current assignee as target (null included) answers
\* 204 every time, leaves the task as it is and adds no entry.
C5_AssignCurrentIsNoOp ==
    [][\A pk \in DOMAIN tasks :
        (Served("assign", pk) /\ TargetIsCurrent(last'.data, tasks[pk]))
        => (last'.code = HTTP_204_NO_CONTENT /\ NothingWritten)]_vars

C5_Witness ==
    /\ last.op = "assign" /\ last.code = HTTP_204_NO_CONTENT
    /\ last.pk \in DOMAIN tasks
    /\ tasks[last.pk].assignee \in users
    /\ last.data = [user |-> StrOf(tasks[last.pk].assignee)]

\* the outcome of an assign that resolves to null
Unassigns(pk) ==
    IF tasks[pk].assignee = None
    THEN last'.code = HTTP_204_NO_CONTENT /\ NothingWritten
    ELSE /\ last'.code = HTTP_200_OK
         /\ pk \in DOMAIN tasks' /\ tasks'[pk].assignee = None
         /\ OthersKept(pk)
         /\ AppendsOne(EVENT_ASSIGNED, pk)

\* C6, as claimed: assign with an empty or an absent user identifier
\* resolves to null: no-op on an unassigned task, else the assignee becomes
\* null and one ASSIGNED entry is appended.
C6_EmptyOrAbsentUnassigns ==
    [][\A pk \in DOMAIN tasks :
        (Served("assign", pk) /\ last'.data \in {NoData, [user |-> <<>>]})
        => Unassigns(pk)]_vars

\* C6, amended: assign with an empty user identifier resolves to null (no-op
\* on an unassigned task, else the assignee becomes null and one ASSIGNED
\* entry is appended); assign with no user identifier at all fails with
\* NotFound and writes nothing.
C6_EmptyUnassignsAbsentNotFound ==
    [][\A pk \in DOMAIN tasks :
        /\ (Served("assign", pk) /\ last'.data = [user |-> <<>>])
           => Unassigns(pk)
        /\ (Served("assign", pk) /\ last'.data = NoData)
           => (last'.code = HTTP_404_NOT_FOUND /\ NothingWritten)]_vars

C6_Witness ==
    /\ last.op = "assign" /\ last.code = HTTP_200_OK
    /\ last.data = [user |-> <<>>]
    /\ tasks[last.pk].assignee = None
    /\ log[Len(log)].event = EVENT_ASSIGNED
    /\ log[Len(log)].task = last.pk

\* C7: assign with a non-empty user identifier that is the pk of no user
\* fails with NotFound and leaves the assignee and the log as they are.
C7_UnknownUserIsNotFound ==
    [][\A pk \in DOMAIN tasks :
        (/\ Served("assign", pk)
         /\ Has(last'.data, "user")
         /\ last'.data.user # <<>>
         /\ \A u \in users : last'.data.user # StrOf(u))
        => (last'.code = HTTP_404_NOT_FOUND /\ NothingWritten)]_vars

\* C8: update leaves reporter, assignee and status (and created_on, and
\* every other task) as they were, also when the payload supplies them, and
\* a payload of such fields alone is accepted.
C8_UpdateKeepsPrivileged ==
    [][\A pk \in DOMAIN tasks :
        (last'.op = "update" /\ last'.pk = pk)
        => /\ pk \in DOMAIN tasks'
           /\ tasks'[pk].reporter = tasks[pk].reporter
           /\ tasks'[pk].assignee = tasks[pk].assignee
           /\ tasks'[pk].status = tasks[pk].status
           /\ tasks'[pk].created_on = tasks[pk].created_on
           /\ OthersKept(pk)
           /\ (/\ last'.actor \in users
               /\ DOMAIN last'.data \subseteq {"status", "reporter", "assignee"})
              => last'.code = HTTP_200_OK]_vars

C8_Witness ==
    /\ last.op = "update" /\ last.code = HTTP_200_OK
    /\ Has(last.data, "status") /\ last.data.status # tasks[last.pk].status
    /\ last.data.reporter # tasks[last.pk].reporter
    /\ last.data.assignee # tasks[last.pk].assignee

\* C9: every successful update appends exactly one EDITED entry, also when
\* the payload changes no field; update never answers 204.
C9_UpdateAlwaysLogs ==
    [][\A pk \in Pks :
        (last'.op = "update" /\ last'.pk = pk)
        => /\ last'.code # HTTP_204_NO_CONTENT
           /\ last'.code = HTTP_200_OK => AppendsOne(EVENT_EDITED, pk)
           /\ (/\ last'.actor \in users
               /\ pk \in DOMAIN tasks
               /\ \A key \in DOMAIN last'.data \cap WritableFields :
                    last'.data[key] = tasks[pk][key])
              => last'.code = HTTP_200_OK]_vars

\* an update with the name the task already has
C9_Witness ==
    /\ last.op = "update" /\ last.code = HTTP_200_OK
    /\ last.data = [name |-> NameMaxLen]
    /\ Len(EventsOf(last.pk)) = 2
    /\ EventsOf(last.pk)[2].event = EVENT_EDITED
    /\ tasks[last.pk].description = DescriptionMaxLen

\* C10: delete of an existing task removes the task and all its entries,
\* appends nothing, and leaves every other task and its entries as they
\* were; get and listEvents of a pk that is not stored answer NotFound.
C10_DeleteCascades ==
    [][\A pk \in Pks :
        /\ (Served("delete", pk) /\ pk \in DOMAIN tasks)
           => /\ last'.code = HTTP_200_OK
              /\ pk \notin DOMAIN tasks'
              /\ DOMAIN tasks' = DOMAIN tasks \ {pk}
              /\ OthersKept(pk)
              /\ Len(EventsIn(log', pk)) = 0
              /\ \A k \in Pks \ {pk} : EventsIn(log', k) = EventsIn(log, k)
              /\ Len(log') = Len(log) - Len(EventsIn(log, pk))
        /\ (/\ last'.op \in {"get", "listEvents"} /\ last'.pk = pk
            /\ last'.actor \in users /\ pk \notin DOMAIN tasks)
           => last'.code = HTTP_404_NOT_FOUND]_vars

\* a task with two entries is deleted while another task has its own
C10_Witness ==
    /\ last.op = "delete" /\ last.code = HTTP_200_OK
    /\ last.pk \notin DOMAIN tasks
    /\ calls[last.pk] = 2
    /\ \E k \in DOMAIN tasks : Len(EventsOf(k)) = 1
    /\ Len(log) = 1

\* C11: changeStatus with a status that is none of the three values (12, or
\* no status value at all) is refused as a bad request, is not turned into a
\* valid status, and leaves the task and the log as they were.
C11_InvalidStatusRejected ==
    [][\A pk \in DOMAIN tasks :
        (/\ Served("changeStatus", pk)
         /\ last'.data \in {NoData, [status |-> InvalidChoice]})
        => (last'.code = HTTP_400_BAD_REQUEST /\ NothingWritten)]_vars

\* how many stored tasks have this value in this field
Tally(field, value) ==
    Cardinality({pk \in DOMAIN tasks : tasks[pk][field] = value})

\* how many stored tasks are assigned to the user with one of these statuses
TallyAssigned(user, statuses) ==
    Cardinality({pk \in DOMAIN tasks : /\ tasks[pk].assignee = user
                                        /\ tasks[pk].status \in statuses})

\* C12: the report of a user counts the stored tasks: created = tasks the
\* user reported, assigned = tasks assigned to the user, completed = those
\* of the assigned that are DONE, incompleted = those that are TODO or
\* IN_PROGRESS; all four are 0 when no stored task names the user, and a
\* deleted task counts nowhere.
C12_ReportCountsCurrentTasks ==
    (last.op = "report" /\ last.code = HTTP_200_OK)
    => /\ last.body.created = Tally("reporter", last.actor)
       /\ last.body.assigned = Tally("assignee", last.actor)
       /\ last.body.completed = TallyAssigned(last.actor, {STATUS_DONE})
       /\ last.body.incompleted =
            TallyAssigned(last.actor, {STATUS_TODO, STATUS_IN_PROGRESS})
       /\ (\A pk \in DOMAIN tasks : /\ tasks[pk].reporter # last.actor
                                    /\ tasks[pk].assignee # last.actor)
          => last.body = [created |-> 0, assigned |-> 0, completed |-> 0,
                          incompleted |-> 0]

\* the report of a user who finished a task another user reported
C12_Witness ==
    /\ last.op = "report" /\ last.code = HTTP_200_OK
    /\ last.body = [created |-> 0, assigned |-> 1, completed |-> 1,
                    incompleted |-> 0]
    /\ \E pk \in DOMAIN tasks : tasks[pk].reporter \in users \ {last.actor}

\* C13: in every state and for every user the report has
\* completed + incompleted = assigned, and so has every report answered.
C13_CompletedPlusIncompletedIsAssigned ==
    /\ \A u \in users :
        LET response == UserReports_response(u)
        IN response.completed + response.incompleted = response.assigned
    /\ (last.op = "report" /\ last.code = HTTP_200_OK)
       => last.body.completed + last.body.incompleted = last.body.assigned

\* a report that counts a task in progress
C13_Witness ==
    /\ last.op = "report" /\ last.code = HTTP_200_OK
    /\ last.body.assigned = 1 /\ last.body.incompleted = 1
    /\ \E pk \in DOMAIN tasks : /\ tasks[pk].assignee = last.actor
                                 /\ tasks[pk].status = STATUS_IN_PROGRESS

\* the operations that name a task
TaskOps == {"get", "update", "delete", "assign", "changeStatus", "listEvents"}

\* C14: get, update, delete, assign, changeStatus and listEvents of a pk
\* that is not stored answer NotFound, whatever the payload, and leave the
\* tasks and the log as they were: no task is created, no entry appended.
C14_MissingTaskIsNotFound ==
    [][\A pk \in Pks \ DOMAIN tasks :
        (last'.op \in TaskOps /\ last'.pk = pk /\ last'.actor \in users)
        => /\ last'.code = HTTP_404_NOT_FOUND
           /\ NothingWritten
           /\ nextId' = nextId]_vars

\* a valid change of status sent to a task that was deleted
C14_Witness ==
    /\ last.op = "changeStatus" /\ last.code = HTTP_404_NOT_FOUND
    /\ last.data = [status |-> STATUS_DONE]
    /\ last.pk \notin DOMAIN tasks /\ calls[last.pk] > 0
    /\ DOMAIN tasks # {}

\* the payload carries a value the claim calls invalid: a name or a
\* description that is too long, a category that does not exist, a priority
\* that is none of the three
BadValue(data) ==
    \/ Has(data, "name") /\ data.name > NameMaxLen
    \/ Has(data, "description") /\ data.description > DescriptionMaxLen
    \/ Has(data, "category") /\ data.category \notin categories
    \/ Has(data, "priority") /\ data.priority \notin PRIORITY_CHOICES

\* C15: create with no name, or create or update with a name or description
\* that is too long, a category that does not exist or a priority out of
\* range, is refused as a bad request and writes nothing: no task appears
\* or changes in any field, no pk is used up, no entry is appended.
C15_FailedValidationWritesNothing ==
    [][/\ (/\ last'.op = "create" /\ last'.actor \in users
            /\ (~Has(last'.data, "name") \/ BadValue(last'.data)))
           => (last'.code = HTTP_400_BAD_REQUEST /\ UNCHANGED store)
       /\ (/\ last'.op = "update" /\ last'.actor \in users
            /\ last'.pk \in DOMAIN tasks
            /\ BadValue(last'.data))
           => (last'.code = HTTP_400_BAD_REQUEST /\ UNCHANGED store)
       /\ (last'.op \in {"create", "update"}
            /\ last'.code = HTTP_400_BAD_REQUEST)
           => UNCHANGED store]_vars

\* an update refused for its description, sent to a task that has one
C15_Witness ==
    /\ last.op = "update" /\ last.code = HTTP_400_BAD_REQUEST
    /\ Has(last.data, "description")
    /\ last.data.description > DescriptionMaxLen
    /\ last.pk \in DOMAIN tasks
    /\ tasks[last.pk].description = DescriptionMaxLen

\* every operation of the two urls modules
AllOps == TaskOps \cup {"list", "create", "report"}

\* C16: a request of any operation that carries no authenticated user is
\* answered 401 and nothing is looked up or written: the store is as it
\* was, and the answer is 401, not NotFound, also for a pk that is not
\* stored.
C16_UnauthenticatedIsRefused ==
    [][(last'.op \in AllOps /\ last'.actor \notin users)
        => /\ last'.code = HTTP_401_UNAUTHORIZED
           /\ last'.body = None
           /\ UNCHANGED store]_vars

\* a delete without a token, of a pk that is not stored
C16_Witness ==
    /\ last.op = "delete" /\ last.actor = None
    /\ last.code = HTTP_401_UNAUTHORIZED
    /\ last.pk \notin DOMAIN tasks
    /\ DOMAIN tasks # {}

\* the user whose call created the task: the user of its CREATED entry
Creator(pk) == EventsOf(pk)[1].user

\* C17: in every state every stored task has a reporter, who is the user
\* that created it, and no step (update, assign, changeStatus, a refused or
\* failed call, a call on another task) changes the reporter or the
\* created_on of a task that stays stored.
C17_ReporterIsCreator ==
    /\ [](\A pk \in DOMAIN tasks :
            /\ tasks[pk].reporter \in users
            /\ tasks[pk].created_on # None
            /\ Len(EventsOf(pk)) > 0
            /\ EventsOf(pk)[1].event = EVENT_CREATED
            /\ tasks[pk].reporter = Creator(pk))
    /\ [][\A pk \in DOMAIN tasks \cap DOMAIN tasks' :
            /\ tasks'[pk].reporter = tasks[pk].reporter
            /\ tasks'[pk].created_on = tasks[pk].created_on]_vars

\* a task of one user after an update that names another reporter and a
\* change of status, both by the other user
C17_Witness ==
    /\ last.op = "changeStatus" /\ last.code = HTTP_200_OK
    /\ Len(EventsOf(last.pk)) = 3
    /\ EventsOf(last.pk)[2].event = EVENT_EDITED
    /\ EventsOf(last.pk)[2].user = last.actor
    /\ tasks[last.pk].reporter \in users \ {last.actor}
    /\ tasks[last.pk].created_on < tasks[last.pk].modified_on

\* the kind of entry an operation appends
KindOf(op) ==
    CASE op = "create"       -> EVENT_CREATED
      [] op = "update"       -> EVENT_EDITED
      [] op = "assign"       -> EVENT_ASSIGNED
      [] op = "changeStatus" -> EVENT_STATUS_CHANGED
      [] OTHER               -> None

\* the log after the step holds no entry that the log before it had not
NothingAppended == \A i \in 1..Len(log') : \E j \in 1..Len(log) : log'[i] = log[j]

\* C18: a step that changes the log either appends exactly one entry, which
\* names the user of the call, the task of the call and the kind of the
\* call (create CREATED, update EDITED, assign ASSIGNED, changeStatus
\* STATUS_CHANGED), or is a delete, which appends nothing; and a create, an
\* update, an assign that changes the assignee and a changeStatus that
\* changes the status do append their entry.
C18_EntryNamesActorAndKind ==
    [][/\ log' # log
          => IF last'.op = "delete"
             THEN NothingAppended
             ELSE /\ last'.op \in {"create", "update", "assign",
                                    "changeStatus"}
                  /\ last'.actor \in users
                  /\ AppendsOne(KindOf(last'.op), last'.pk)
                  /\ log'[Len(log')].user = last'.actor
                  /\ last'.pk \in DOMAIN tasks'
       /\ \A pk \in DOMAIN tasks' :
            (/\ last'.pk = pk
             /\ \/ last'.op = "create" /\ pk \notin DOMAIN tasks
                \/ last'.op = "update" /\ last'.code = HTTP_200_OK
                \/ /\ last'.op = "assign" /\ pk \in DOMAIN tasks
                   /\ tasks'[pk].assignee # tasks[pk].assignee
                \/ /\ last'.op = "changeStatus" /\ pk \in DOMAIN tasks
                   /\ tasks'[pk].status # tasks[pk].status)
            => Len(log') = Len(log) + 1]_vars

\* an entry of a user who neither reported the task nor is assigned to it
C18_Witness ==
    /\ last.op = "assign" /\ last.code = HTTP_200_OK
    /\ log[Len(log)].event = EVENT_ASSIGNED
    /\ log[Len(log)].task = last.pk
    /\ log[Len(log)].user = last.actor
    /\ tasks[last.pk].reporter \in users \ {last.actor}
    /\ tasks[last.pk].assignee \in users \ {last.actor}

\* where the entries of a task stand in a log
Positions(entries, pk) == {i \in 1..Len(entries) : entries[i].task = pk}

\* the j-th smallest of a set of numbers
Nth(S, j) == CHOOSE i \in S : Cardinality({k \in S : k < i}) = j - 1

\* the entries of a task, each once, in the order they were appended
OwnedInOrder(entries, pk) ==
    [j \in 1..Cardinality(Positions(entries, pk)) |->
        entries[Nth(Positions(entries, pk), j)]]

\* the calls that write a task and append an entry
Mutating(op, code) ==
    /\ op \in {"create", "update", "assign", "changeStatus"}
    /\ code \in {HTTP_200_OK, HTTP_201_CREATED}

\* C19: listEvents of a stored task answers the entries of that task and no
\* others, each once, in the order they were appended, and the first is its
\* CREATED entry; a mutating call on a task puts its entry last among the
\* entries of that task, and no other call on a task that stays stored
\* changes what listEvents of the task answers.
C19_EventsInAppendOrder ==
    /\ []((last.op = "listEvents" /\ last.code = HTTP_200_OK)
            => /\ last.body = OwnedInOrder(log, last.pk)
               /\ Len(last.body) > 0
               /\ last.body[1].event = EVENT_CREATED)
    /\ [][\A pk \in DOMAIN tasks' :
            LET before == OwnedInOrder(log, pk)
                after  == OwnedInOrder(log', pk)
            IN IF last'.pk = pk /\ Mutating(last'.op, last'.code)
               THEN /\ Len(after) = Len(before) + 1
                    /\ SubSeq(after, 1, Len(before)) = before
                    /\ after[Len(after)].event = KindOf(last'.op)
                    /\ after[Len(after)].user = last'.actor
                    /\ after = EventsIn(log', pk)
               ELSE after = before]_vars

\* the entries of a task listed while an entry of another task stands
\* between them in the log
C19_Witness ==
    /\ last.op = "listEvents" /\ last.code = HTTP_200_OK
    /\ Len(last.body) = 2 /\ Len(log) = 3
    /\ log[2].task # last.pk
    /\ last.body[2] = log[3]
    /\ last.body[2].event = EVENT_EDITED

\* C20: the log is append-only.  A step leaves every entry where it was and
\* as it was (task, user, event, description), adding entries at the end at
\* most, unless it is the delete of a task, which removes the entries of
\* that task and no others; the removal of a user who acted on a task
\* removes and alters nothing.
C20_LogIsAppendOnly ==
    [][IF last'.op = "delete" /\ last'.code = HTTP_200_OK
       THEN log' = SelectSeq(log, LAMBDA e : e.task # last'.pk)
       ELSE /\ Len(log') >= Len(log)
            /\ SubSeq(log', 1, Len(log)) = log]_vars

\* C21: a step that appends a STATUS_CHANGED entry is a changeStatus call on
\* the task of the entry, and the status of that task after the call is not
\* the status it had before, whatever the payload of the call.
C21_StatusChangedMeansChanged ==
    [][(/\ Len(log') = Len(log) + 1
        /\ log'[Len(log')].event = EVENT_STATUS_CHANGED)
        => LET pk == log'[Len(log')].task
           IN /\ last'.op = "changeStatus" /\ last'.pk = pk
              /\ pk \in DOMAIN tasks /\ pk \in DOMAIN tasks'
              /\ tasks'[pk].status # tasks[pk].status]_vars

\* in this step the request in slot p saves the task it loaded
Saves(p, op) ==
    /\ reqs[p].pc = "loaded" /\ reqs[p].op = op
    /\ reqs'[p].pc = "log"

\* C22: the save of an update leaves the assignee and the status of the
\* stored task as they are, also when an assign or a changeStatus wrote
\* them after the update loaded the task: whatever the interleaving, the
\* assignee stays the target of the assign and the status the new value of
\* the changeStatus.
C22_UpdateKeepsConcurrentWrites ==
    [][\A p \in Procs :
        (Saves(p, "update") /\ reqs[p].pk \in DOMAIN tasks)
        => LET pk == reqs[p].pk
           IN /\ tasks'[pk].assignee = tasks[pk].assignee
              /\ tasks'[pk].status = tasks[pk].status]_vars

\* C23: when no request is in flight, also after requests that ran side by
\* side on one task, the status of every stored task is the one its latest
\* STATUS_CHANGED entry names (TODO when it has none) and its assignee the
\* one its latest ASSIGNED entry names (null when it has none).
C23_LogAgreesAfterRaces ==
    \A pk \in DOMAIN tasks :
        Quiescent
        => /\ tasks[pk].status =
                LatestLogged(pk, EVENT_STATUS_CHANGED, STATUS_TODO)
           /\ tasks[pk].assignee = LatestLogged(pk, EVENT_ASSIGNED, None)

\* the pks that were given to a task and are stored no more: the deleted
Deleted == {pk \in Pks : pk < nextId /\ pk \notin DOMAIN tasks}

\* C24: a deleted task stays deleted and owns no entry: in every state no
\* entry of the log names a deleted pk, and no step stores a task under a
\* deleted pk, also not the save or the log step of an update, assign or
\* changeStatus that loaded the task before the delete.
C24_DeletedStaysDeleted ==
    /\ [](\A pk \in Deleted : Len(EventsOf(pk)) = 0)
    /\ [][\A pk \in Deleted : pk \notin DOMAIN tasks']_vars

\* C25: of two assigns with the same target that run side by side on a task
\* with another assignee, one at most goes on to save and append its
\* ASSIGNED entry and the other ends with the no-op outcome: an assign that
\* saves finds a stored assignee that is not its target; and likewise a
\* changeStatus that names a status and saves finds a stored status that is
\* not the one it names.
C25_SameTargetOnceOnly ==
    [][\A p \in Procs :
        LET pk == reqs[p].pk
        IN /\ (Saves(p, "assign") /\ pk \in DOMAIN tasks)
              => tasks[pk].assignee # tasks'[pk].assignee
           /\ (/\ Saves(p, "changeStatus") /\ pk \in DOMAIN tasks
               /\ Has(reqs[p].data, "status"))
              => tasks[pk].status # tasks'[pk].status]_vars

\* C26: in every state every stored task has one of the three statuses and
\* one of the three priorities and refers to a category that exists; a step
\* that removes a category removes one that no task refers to, and changes
\* no task.
C26_ChoicesAndCategoryHold ==
    /\ [](\A pk \in DOMAIN tasks :
            /\ tasks[pk].status \in {STATUS_TODO, STATUS_IN_PROGRESS,
                                      STATUS_DONE}
            /\ tasks[pk].priority \in {PRIORITY_LOW, PRIORITY_MEDIUM,
                                        PRIORITY_HIGH}
            /\ tasks[pk].category \in categories)
    /\ [][\A category \in categories \ categories' :
            /\ \A pk \in DOMAIN tasks : tasks[pk].category # category
            /\ tasks' = tasks]_vars

\* a finished task of high priority whose category stays while the other
\* category is deleted
C26_Witness ==
    /\ categories # {} /\ categories # CategoryPks
    /\ \E pk \in DOMAIN tasks : /\ tasks[pk].category \in categories
                                 /\ tasks[pk].priority = PRIORITY_HIGH
                                 /\ tasks[pk].status = STATUS_DONE

\* the operations that read
ReadOps == {"get", "list", "listEvents", "report"}

\* the four counts as a function of the task rows and the user alone
ReportOfRows(rows, user) ==
    LET mine(field)   == {pk \in DOMAIN rows : rows[pk][field] = user}
        with(statuses) == {pk \in mine("assignee") :
                              rows[pk].status \in statuses}
    IN [created     |-> Cardinality(mine("reporter")),
        assigned    |-> Cardinality(mine("assignee")),
        completed   |-> Cardinality(with({STATUS_DONE})),
        incompleted |-> Cardinality(with({STATUS_TODO,
                                          STATUS_IN_PROGRESS}))]

\* C27: get, list, listEvents and report write nothing, in any state and
\* however often they are called: every field of every task (modified_on
\* too), the log and the rest of the store are as before; and the report
\* is a function of the task rows and the user, so the log has no part in
\* it.
C27_ReadsWriteNothing ==
    /\ [][last'.op \in ReadOps => UNCHANGED store]_vars
    /\ []((last.op = "report" /\ last.code = HTTP_200_OK)
            => last.body = ReportOfRows(tasks, last.actor))

\* a report of a user whose task carries an entry of another user
C27_Witness ==
    /\ last.op = "report" /\ last.code = HTTP_200_OK
    /\ last.body.created = 1
    /\ \E i \in 1..Len(log) :
        /\ log[i].user # last.actor
        /\ log[i].event = EVENT_EDITED
        /\ log[i].task \in DOMAIN tasks
        /\ tasks[log[i].task].reporter = last.actor

\* the call of this step wrote task pk: an update that succeeded, an assign
\* that changed the assignee, a changeStatus that changed the status
Changing(pk) ==
    /\ last'.pk = pk
    /\ \/ last'.op = "update" /\ last'.code = HTTP_200_OK
       \/ last'.op = "assign" /\ tasks'[pk].assignee # tasks[pk].assignee
       \/ last'.op = "changeStatus" /\ tasks'[pk].status # tasks[pk].status

\* the call of this step is a read, a no-op outcome or a failed call
Unchanging ==
    \/ last'.op \in ReadOps
    \/ last'.code \in {HTTP_204_NO_CONTENT, HTTP_400_BAD_REQUEST,
                       HTTP_401_UNAUTHORIZED, HTTP_404_NOT_FOUND}

\* C28: on the logical clock, modified_on of a task is later after every
\* successful update, every assign that changes the assignee and every
\* changeStatus that changes the status; it is as before after a no-op
\* outcome, a failed call, a read and a call on another task; and in every
\* state it is not earlier than created_on.
C28_ModifiedOnAdvances ==
    /\ [](\A pk \in DOMAIN tasks :
            tasks[pk].modified_on >= tasks[pk].created_on)
    /\ [][\A pk \in DOMAIN tasks \cap DOMAIN tasks' :
            /\ Changing(pk)
               => tasks'[pk].modified_on > tasks[pk].modified_on
            /\ (Unchanging \/ last'.pk # pk)
               => tasks'[pk].modified_on = tasks[pk].modified_on]_vars

\* a task assigned after its creation, then sent the same assign again
C28_Witness ==
    /\ last.op = "assign" /\ last.code = HTTP_204_NO_CONTENT
    /\ last.pk \in DOMAIN tasks
    /\ tasks[last.pk].assignee \in users
    /\ tasks[last.pk].modified_on > tasks[last.pk].created_on
    /\ tasks[last.pk].modified_on = clock

====
